---- MODULE Spec2Model ----
(***************************************************************************)
(* A model of the Full Course Yellow bot: the guild registry of            *)
(* fcy_constants.py, the alert_guild_members index maintained by the       *)
(* member listeners of fcy_cogs.py, and the /alert command pipeline        *)
(* (slash_alert, send_self_alert, send_alerts, determine_alert_server,     *)
(* get_mutual_monitored_guilds), with solidify_actor_abstract and          *)
(* on_application_command_error of full_course_yellow.py.                  *)
(*                                                                         *)
(* Python strings are sequences of one-character strings, so that str(),   *)
(* int(), str.isdigit() and str.casefold() are computed and not assumed.   *)
(* Python values that may be a str or an int are pairs <<"str", chars>>    *)
(* or <<"int", n>>.  A dict is a sequence of <<key, value>> pairs in       *)
(* insertion order.  Discord snowflakes of guilds, roles and channels are  *)
(* only ever compared for equality and are kept as TLA+ strings holding    *)
(* the very digits of the source; user ids are small naturals.             *)
(***************************************************************************)
EXTENDS Integers, Sequences, FiniteSets, TLC

(***************************************************************************)
(* Bounds of the model.                                                    *)
(***************************************************************************)
\* the number of member join/leave events Discord may emit in one behaviour
MaxEvents == 2
\* the number of /alert invocations in one behaviour
MaxInvocations == 1
\* the length of the lists of mutual guilds decorate_mutual_guilds is applied to
MaxMutual == 3
\* the length of the str identifiers solidify_actor_abstract is applied to
MaxIdLen == 2
\* the number of guild objects of one class that a registry is loaded from
MaxObjects == 2

(***************************************************************************)
(* Strings.                                                                *)
(***************************************************************************)
UPPERCASE == <<"A", "B", "C", "D", "E", "F", "G", "H", "I", "J", "K", "L", "M",
               "N", "O", "P", "Q", "R", "S", "T", "U", "V", "W", "X", "Y", "Z">>
LOWERCASE == <<"a", "b", "c", "d", "e", "f", "g", "h", "i", "j", "k", "l", "m",
               "n", "o", "p", "q", "r", "s", "t", "u", "v", "w", "x", "y", "z">>
\* the characters of the model in code point order
CODEPOINTS == <<" ", "'", "/", "0", "1", "2", "3", "4", "5", "6", "7", "8", "9">>
              \o UPPERCASE \o LOWERCASE \o <<"sup2">>
\* the ASCII decimal digits, at index value + 1
DIGITS == <<"0", "1", "2", "3", "4", "5", "6", "7", "8", "9">>

IndexOf(seq, x) == CHOOSE i \in 1..Len(seq) : seq[i] = x
Range(seq) == {seq[i] : i \in 1..Len(seq)}
Ord(c) == IndexOf(CODEPOINTS, c)

\* str.casefold, one character
CasefoldChar(c) == IF c \in Range(UPPERCASE) THEN LOWERCASE[IndexOf(UPPERCASE, c)] ELSE c
Casefold(s) == [i \in 1..Len(s) |-> CasefoldChar(s[i])]

\* s < t, as Python compares two str
StrLess(s, t) ==
    \E k \in 1..(Len(t)) :
        /\ \A j \in 1..(k - 1) : j <= Len(s) /\ s[j] = t[j]
        /\ \/ k = Len(s) + 1
           \/ k <= Len(s) /\ Ord(s[k]) < Ord(t[k])

\* str.isdigit: non-empty and every character a digit; the superscript two
\* (written "sup2") is a digit for isdigit and not a decimal for int()
IsDigitChar(c) == c \in Range(DIGITS) \/ c = "sup2"
IsDigit(s) == Len(s) > 0 /\ \A i \in 1..Len(s) : IsDigitChar(s[i])

\* int(s) of a str: a ValueError unless every character is a decimal digit
IntParses(s) == Len(s) > 0 /\ \A i \in 1..Len(s) : s[i] \in Range(DIGITS)
RECURSIVE IntOf(_)
IntOf(s) == IF Len(s) = 0 THEN 0
            ELSE 10 * IntOf(SubSeq(s, 1, Len(s) - 1)) + (IndexOf(DIGITS, s[Len(s)]) - 1)

\* str(n) of a non-negative int
RECURSIVE StrOf(_)
StrOf(n) == IF n < 10 THEN <<DIGITS[n + 1]>>
            ELSE StrOf(n \div 10) \o <<DIGITS[(n % 10) + 1]>>

PyStr(s) == <<"str", s>>
PyInt(n) == <<"int", n>>

(***************************************************************************)
(* Sequences and dicts.                                                    *)
(***************************************************************************)
\* insert the guild x into seq, sorted by name.casefold(), after every element
\* whose key is not greater: sorted() is stable
RECURSIVE InsertSorted(_, _)
InsertSorted(seq, x) ==
    IF seq = <<>> THEN <<x>>
    ELSE IF StrLess(Casefold(x.name), Casefold(Head(seq).name)) THEN <<x>> \o seq
    ELSE <<Head(seq)>> \o InsertSorted(Tail(seq), x)

\* sorted(seq, key = lambda g: g.name.casefold())
\* a mutant of SortedByName: the objects stay in the order of their definition
RegistryUnsorted(seq) == seq
RECURSIVE SortedByName(_)
SortedByName(seq) ==
    IF seq = <<>> THEN <<>>
    ELSE InsertSorted(SortedByName(SubSeq(seq, 1, Len(seq) - 1)), seq[Len(seq)])

DictKeys(d) == {d[i][1] : i \in 1..Len(d)}
DictHas(d, k) == k \in DictKeys(d)
DictGet(d, k) == d[CHOOSE i \in 1..Len(d) : d[i][1] = k][2]
DictValues(d) == [i \in 1..Len(d) |-> d[i][2]]
\* d[k] = v: an existing key keeps its place, a new key goes last
DictSet(d, k, v) ==
    IF DictHas(d, k) THEN [i \in 1..Len(d) |-> IF d[i][1] = k THEN <<k, v>> ELSE d[i]]
    ELSE Append(d, <<k, v>>)
\* {obj.id: obj for obj in objs}
RECURSIVE DictById(_)
DictById(objs) ==
    IF objs = <<>> THEN <<>>
    ELSE DictSet(DictById(SubSeq(objs, 1, Len(objs) - 1)), objs[Len(objs)].id, objs[Len(objs)])
\* d1 | d2
RECURSIVE DictUnion(_, _)
DictUnion(d1, d2) ==
    IF d2 = <<>> THEN d1
    ELSE DictUnion(DictSet(d1, Head(d2)[1], Head(d2)[2]), Tail(d2))

(***************************************************************************)
(* The registry of fcy_constants.py.  Of the monitored guilds the model    *)
(* keeps Lux's Dev/Testing Server (testing), /r/formula1, /r/WEC and the   *)
(* disabled NASCAR, in the order of their definition; both alert guilds    *)
(* are kept, their guild_notification_roles cut to the guilds kept.        *)
(* A guild constructed without testing = True has testing False (what      *)
(* send_alerts and generate_base_alert_embed test with "is False").        *)
(***************************************************************************)
LUX_TESTING_USER_ID == <<"2">>
TESTING_USER_IDS == {LUX_TESTING_USER_ID}

MonitoredGuild(id, name, enabled, testing) ==
    [cls |-> "MonitoredGuild", id |-> id, name |-> name, enabled |-> enabled, testing |-> testing,
     alert_channel_id |-> "", general_notification_role_id |-> "", guild_notification_roles |-> <<>>]
AlertGuild(id, name, alert_channel_id, general_notification_role_id, guild_notification_roles, enabled, testing) ==
    [cls |-> "AlertGuild", id |-> id, name |-> name, enabled |-> enabled, testing |-> testing,
     alert_channel_id |-> alert_channel_id,
     general_notification_role_id |-> general_notification_role_id,
     guild_notification_roles |-> guild_notification_roles]

LUX_DEV_MG == MonitoredGuild("1079109375647555695",
    <<"L", "u", "x", "'", "s", " ", "D", "e", "v", "/", "T", "e", "s", "t", "i", "n", "g", " ",
      "S", "e", "r", "v", "e", "r">>, TRUE, TRUE)
R_F1_MG == MonitoredGuild("177387572505346048",
    <<"/", "r", "/", "f", "o", "r", "m", "u", "l", "a", "1">>, TRUE, FALSE)
R_WEC_MG == MonitoredGuild("193548511126487040", <<"/", "r", "/", "W", "E", "C">>, TRUE, FALSE)
NASCAR_MG == MonitoredGuild("877239953174691910", <<"N", "A", "S", "C", "A", "R">>, FALSE, FALSE)

LUX_DEV_AG == AlertGuild("1079109375647555695",
    <<"L", "u", "x", "'", "s", " ", "D", "e", "v", "/", "T", "e", "s", "t", "i", "n", "g", " ",
      "S", "e", "r", "v", "e", "r">>,
    "1105555454605672448", "1136730925481340968",
    << <<"1079109375647555695", "1136731212828901397">>,
       <<"177387572505346048", "1143326383955783783">> >>,
    TRUE, TRUE)
SMS_AG == AlertGuild("959541053915037697",
    <<"S", "t", "a", "f", "f", " ", "o", "f", " ", "M", "S", " ", "D", "i", "s", "c", "o", "r",
      "d", "s">>,
    "960480902331383809", "1144006270454599720",
    << <<"177387572505346048", "959862354663850086">>,
       <<"877239953174691910", "959542131251380274">>,
       <<"193548511126487040", "1118919138321104906">> >>,
    TRUE, FALSE)

\* the module's MonitoredGuild and AlertGuild objects, as locals().values() lists them
MonitoredGuildObjects == <<LUX_DEV_MG, R_F1_MG, R_WEC_MG, NASCAR_MG>>
AlertGuildObjects == <<LUX_DEV_AG, SMS_AG>>

IsEnabled(kv) == kv[2].enabled = TRUE
IsTesting(kv) == kv[2].testing = TRUE

ALL_MONITORED_GUILDS == DictById(SortedByName(MonitoredGuildObjects))
ENABLED_MONITORED_GUILDS == SelectSeq(ALL_MONITORED_GUILDS, IsEnabled)
ALL_ALERT_GUILDS == DictById(SortedByName(AlertGuildObjects))
ENABLED_ALERT_GUILDS == SelectSeq(ALL_ALERT_GUILDS, IsEnabled)
ALL_GUILDS == DictUnion(ALL_MONITORED_GUILDS, ALL_ALERT_GUILDS)
ALL_ENABLED_GUILDS == DictUnion(ENABLED_MONITORED_GUILDS, ENABLED_ALERT_GUILDS)
ALL_TESTING_GUILDS == SelectSeq(ALL_GUILDS, IsTesting)
\* a mutant of ENABLED_TESTING_GUILDS: every enabled guild counts as a testing guild
EnabledGuildsAsTesting == ALL_ENABLED_GUILDS
ENABLED_TESTING_GUILDS == SelectSeq(ALL_TESTING_GUILDS, IsEnabled)

(***************************************************************************)
(* AlertGuild.decorate_mutual_guilds.  A str is the sequence of its         *)
(* characters; the digits of a role id are kept as one element.            *)
(***************************************************************************)
\* guild_notification_roles = None
NoRoleMap == << <<"None", "None">> >>
\* f"<@&{role_id}>"
RoleMention(role_id) == <<"<", "@", "&", role_id, ">">>
\* sep.join(strs)
RECURSIVE Join(_, _)
Join(sep, strs) ==
    IF Len(strs) = 0 THEN <<>>
    ELSE IF Len(strs) = 1 THEN strs[1]
    ELSE strs[1] \o sep \o Join(sep, Tail(strs))

\* a mutant of decorate_mutual_guilds: the names, whatever the alert guild maps
decorate_names_only(self, mutual_guilds) ==
    Join(<<",", " ">>, [i \in 1..Len(mutual_guilds) |-> mutual_guilds[i].name])
decorate_mutual_guilds(self, mutual_guilds) ==
    IF self.guild_notification_roles = NoRoleMap
    THEN Join(<<",", " ">>, [i \in 1..Len(mutual_guilds) |-> mutual_guilds[i].name])
    ELSE Join(<<",", " ">>,
              [i \in 1..Len(mutual_guilds) |->
                  IF ~DictHas(self.guild_notification_roles, mutual_guilds[i].id)
                  THEN mutual_guilds[i].name
                  ELSE RoleMention(DictGet(self.guild_notification_roles, mutual_guilds[i].id))])

(***************************************************************************)
(* What Discord holds: the users, and the members of the alert guilds.     *)
(***************************************************************************)
\* the ids of the users that exist upstream
Actors == {1, 2, 3}
AlertGuildIds == DictKeys(ENABLED_ALERT_GUILDS)
\* the guilds whose member events reach the bot: the enabled alert guilds and
\* /r/formula1, which is a monitored guild only
EventGuildIds == AlertGuildIds \cup {R_F1_MG.id}
\* the members of the alert guilds when the bot starts
InitialRoster == [g \in AlertGuildIds |-> IF g = SMS_AG.id THEN {1, 2} ELSE {1}]

VARIABLES
    alert_guild_members,  \* FCYFunctionality.alert_guild_members
    roster,               \* Discord: the members of each enabled alert guild
    events,               \* member events emitted by Discord and not yet handled
    emitted,              \* how many member events Discord has emitted
    populate_pc,          \* on_ready: 0 not started, i the next alert guild to fetch
    listener              \* the last run of a member listener: the event, the exception
                          \* it raised, whether str(id) was in the index before

VARIABLES
    pc,                     \* the position of the invocation
    invocations,            \* how many invocations have started
    ctx,                    \* the ApplicationContext: guild, author, the user_id option
    solidified_actor,       \* slash_alert: the resolved Actor's id, 0 before
    is_self_alert,          \* slash_alert
    log,                    \* the calls made by the invocation
    guards,                 \* the guards of slash_alert evaluated by the invocation
    probe_ret,              \* get_mutual_monitored_guilds: its caller
    probe_i,                \* ... the next enabled monitored guild to fetch from
    probe_mgs,              \* ... mutual_mgs, as guild ids
    probe_outcomes,         \* ... what fetch_member did for the guilds fetched from
    self_mutual_mgs,        \* send_self_alert: mutual_mgs
    mutual_mgs,             \* send_alerts: mutual_mgs
    alerting_server_name,   \* the result of determine_alert_server
    options,                \* ServerSelectView.options
    origin,                 \* determine_alert_server: the member's roles it read, the
                            \* options of the views it dispatched, the option picked
                            \* (0 for none), whether a view timed out
    testing_guilds_only,    \* send_alerts
    guilds_to_alert,        \* send_alerts, as guild ids
    send_i,                 \* send_alerts: the next of guilds_to_alert
    exception               \* the exception that left slash_alert, <<class, raised by>>

VARIABLES
    decoration,             \* a call of decorate_mutual_guilds: self, mutual_guilds, and
                            \* the str returned once it was called
    resolution,             \* calls of solidify_actor_abstract: the actor abstract, what
                            \* the first call did, what a second call on its result did
    registry                \* a load of fcy_constants: the guild objects of one class
                            \* and the dicts built from them

cmd_vars == <<pc, invocations, ctx, solidified_actor, is_self_alert, log, guards, probe_ret, probe_i,
              probe_mgs, probe_outcomes, self_mutual_mgs, mutual_mgs, alerting_server_name,
              options, origin, testing_guilds_only, guilds_to_alert, send_i, exception,
              decoration, resolution, registry>>
probe_vars == <<probe_ret, probe_i, probe_mgs, probe_outcomes>>
send_vars == <<testing_guilds_only, guilds_to_alert, send_i>>
origin_vars == <<alerting_server_name, options, origin>>

\* decoration, resolution and registry belong to neither the command nor the
\* index: they are in both tuples, so that every step of either leaves them alone
index_vars == <<alert_guild_members, roster, events, emitted, populate_pc, listener, decoration, resolution, registry>>

PopulateDone == populate_pc = Len(ENABLED_ALERT_GUILDS) + 1

\* set.remove(key): the set afterwards, or a KeyError when key is not an element
SetRemoveRaises(set, key) == key \notin set
SetRemove(set, key) == set \ {key}

\* Discord: the user a joins the guild g, and the gateway emits the event
MemberJoins(a, g) ==
    /\ emitted < MaxEvents
    /\ g \in AlertGuildIds => a \notin roster[g]
    /\ roster' = IF g \in AlertGuildIds THEN [roster EXCEPT ![g] = @ \cup {a}] ELSE roster
    /\ events' = Append(events, <<"join", a, g>>)
    /\ emitted' = emitted + 1
    /\ UNCHANGED <<alert_guild_members, populate_pc, listener>>
    /\ UNCHANGED cmd_vars

\* Discord: the user a leaves the guild g, and the gateway emits the event
MemberLeaves(a, g) ==
    /\ emitted < MaxEvents
    /\ g \in AlertGuildIds => a \in roster[g]
    /\ roster' = IF g \in AlertGuildIds THEN [roster EXCEPT ![g] = @ \ {a}] ELSE roster
    /\ events' = Append(events, <<"leave", a, g>>)
    /\ emitted' = emitted + 1
    /\ UNCHANGED <<alert_guild_members, populate_pc, listener>>
    /\ UNCHANGED cmd_vars

\* the key on_member_join adds: str(member.id)
JoinKey(a) == PyStr(StrOf(a))
\* a mutant of RemoveKey: the key is str(payload.user.id), the key that was added
RemoveKeyAsAdded(a) == PyStr(StrOf(a))
\* the key on_raw_member_remove removes: payload.user.id, an int
RemoveKey(a) == PyInt(a)

\* what the last listener did
Listened(event, error) ==
    [event |-> event, error |-> error, contained |-> JoinKey(event[2]) \in alert_guild_members]

\* a mutant of on_member_join: the guild joined is not looked at
on_member_join_any_guild ==
    /\ events # <<>> /\ Head(events)[1] = "join"
    /\ events' = Tail(events)
    /\ alert_guild_members' = alert_guild_members \cup {JoinKey(Head(events)[2])}
    /\ listener' = Listened(Head(events), "none")
    /\ UNCHANGED <<roster, emitted, populate_pc>>
    /\ UNCHANGED cmd_vars

on_member_join ==
    /\ events # <<>> /\ Head(events)[1] = "join"
    /\ events' = Tail(events)
    /\ alert_guild_members' =
          IF DictHas(ENABLED_ALERT_GUILDS, Head(events)[3])
          THEN alert_guild_members \cup {JoinKey(Head(events)[2])}
          ELSE alert_guild_members
    /\ listener' = Listened(Head(events), "none")
    /\ UNCHANGED <<roster, emitted, populate_pc>>
    /\ UNCHANGED cmd_vars

\* a KeyError leaves the listener, and the index is as it was
on_raw_member_remove ==
    /\ events # <<>> /\ Head(events)[1] = "leave"
    /\ events' = Tail(events)
    /\ IF DictHas(ENABLED_ALERT_GUILDS, Head(events)[3])
       THEN IF SetRemoveRaises(alert_guild_members, RemoveKey(Head(events)[2]))
            THEN /\ listener' = Listened(Head(events), "KeyError")
                 /\ UNCHANGED alert_guild_members
            ELSE /\ listener' = Listened(Head(events), "none")
                 /\ alert_guild_members' =
                       SetRemove(alert_guild_members, RemoveKey(Head(events)[2]))
       ELSE /\ listener' = Listened(Head(events), "none")
            /\ UNCHANGED alert_guild_members
    /\ UNCHANGED <<roster, emitted, populate_pc>>
    /\ UNCHANGED cmd_vars

\* on_ready up to the first fetch of populate_alert_guild_members
on_ready ==
    /\ populate_pc = 0
    /\ populate_pc' = 1
    /\ UNCHANGED <<alert_guild_members, roster, events, emitted, listener>>
    /\ UNCHANGED cmd_vars

\* a mutant of populate_alert_guild_members: the members fetched are always
\* those of the first alert guild
populate_first_guild_only ==
    /\ populate_pc \in 1..Len(ENABLED_ALERT_GUILDS)
    /\ alert_guild_members' = alert_guild_members \cup
          {PyStr(StrOf(a)) : a \in roster[ENABLED_ALERT_GUILDS[1][2].id]}
    /\ populate_pc' = populate_pc + 1
    /\ UNCHANGED <<roster, events, emitted, listener>>
    /\ UNCHANGED cmd_vars

\* populate_alert_guild_members: one alert guild's fetch_members, every member added
populate_alert_guild_members ==
    /\ populate_pc \in 1..Len(ENABLED_ALERT_GUILDS)
    /\ alert_guild_members' = alert_guild_members \cup
          {PyStr(StrOf(a)) : a \in roster[ENABLED_ALERT_GUILDS[populate_pc][2].id]}
    /\ populate_pc' = populate_pc + 1
    /\ UNCHANGED <<roster, events, emitted, listener>>
    /\ UNCHANGED cmd_vars

InitIndex ==
    /\ alert_guild_members = {}
    /\ roster = InitialRoster
    /\ events = <<>>
    /\ emitted = 0
    /\ populate_pc = 0
    /\ listener = [event |-> <<>>, error |-> "none", contained |-> FALSE]

NextIndex ==
    \/ \E a \in Actors, g \in EventGuildIds : MemberJoins(a, g)
    \/ \E a \in Actors, g \in EventGuildIds : MemberLeaves(a, g)
    \/ on_member_join
    \/ on_raw_member_remove
    \/ on_ready
    \/ populate_alert_guild_members

(***************************************************************************)
(* The /alert command.  One invocation runs at a time; its position is pc, *)
(* and log lists, in order, the calls it has made on the interaction       *)
(* (respond, defer, edit), on Discord (fetch_user, fetch_member, send), on *)
(* the index (lookup), and its entries into send_alerts and into           *)
(* get_mutual_monitored_guilds (probe).                                    *)
(***************************************************************************)
\* the user_id options an invoker may type
UserIdInputs == {<<"1">>, <<"2">>, <<"3">>, <<"0", "1">>, <<"9">>, <<"9", "9">>, <<"a">>, <<"sup2">>, <<>>}
\* where a command may come from: an alert guild, a monitored guild that is no
\* alert guild, or a direct message (ctx.guild is None)
CommandGuilds == AlertGuildIds \cup {R_F1_MG.id, "None"}
NoCtx == [guild |-> "None", author |-> 0, user_id |-> <<>>]
NoException == <<"none", "none">>
NoOrigin == [roles |-> {}, prompts |-> <<>>, choice |-> 0, abandoned |-> FALSE]

\* the roles of the alert guilds, as guild.roles lists them: each guild's general
\* notification role and the roles its guild_notification_roles maps
Role(id, name) == [id |-> id, name |-> name]
GuildRoles(guild_id) ==
    IF guild_id = LUX_DEV_AG.id
    THEN << Role("1136730925481340968", <<"A", "l", "e", "r", "t", "s">>),
            Role("1136731212828901397", <<"L", "u", "x">>),
            Role("1143326383955783783", <<"/", "r", "/", "f", "o", "r", "m", "u", "l", "a", "1">>) >>
    ELSE << Role("1144006270454599720", <<"A", "l", "e", "r", "t", "s">>),
            Role("959862354663850086", <<"/", "r", "/", "f", "o", "r", "m", "u", "l", "a", "1">>),
            Role("959542131251380274", <<"N", "A", "S", "C", "A", "R">>),
            Role("1118919138321104906", <<"W", "E", "C">>) >>

\* what guild.fetch_member does for one monitored guild, and the exception it raises
Outcomes == {"Present", "NotPresent", "PermissionDenied", "TransientFailure"}
FetchMemberException(outcome) ==
    CASE outcome = "Present" -> "none"
      [] outcome = "NotPresent" -> "NotFound"
      [] outcome = "PermissionDenied" -> "Forbidden"
      [] outcome = "TransientFailure" -> "DiscordServerError"
\* discord.Forbidden, NotFound and DiscordServerError derive from HTTPException
IsInstance(exc, cls) ==
    \/ exc = cls
    \/ cls = "HTTPException" /\ exc \in {"Forbidden", "NotFound", "DiscordServerError"}

(***************************************************************************)
(* FCYBot.solidify_actor_abstract.  An actor abstract is None, an Actor, an *)
(* int or a str; an Actor is its id.                                       *)
(***************************************************************************)
PyNone == <<"None", 0>>
Actor(id) == <<"Actor", id>>
\* the ids Discord takes for a snowflake; a greater one is a Bad Request
ValidSnowflake(user_id) == user_id < 90
\* what fetch_user raises: NotFound for an id that is no user's, HTTPException
\* for an id out of range
FetchUserException(user_id) ==
    IF ~ValidSnowflake(user_id) THEN "HTTPException"
    ELSE IF user_id \notin Actors THEN "NotFound"
    ELSE "none"
\* how a call of solidify_actor_abstract ends, and the ids it gave fetch_user
Returned(actor, fetched) == [raised |-> "none", actor |-> actor, fetched |-> fetched]
Raised(exc, fetched) == [raised |-> exc, actor |-> 0, fetched |-> fetched]

\* a mutant of solidify_actor_abstract: an Actor is looked up again by its id
solidify_always_fetches(actor_abstract) ==
    IF actor_abstract[1] = "None" THEN Raised("UserNotFound", <<>>)
    ELSE IF actor_abstract[1] = "str" /\ ~IntParses(actor_abstract[2])
    THEN Raised("ValueError", <<>>)
    ELSE LET user_id == IF actor_abstract[1] = "str" THEN IntOf(actor_abstract[2])
                        ELSE actor_abstract[2]
         IN  IF IsInstance(FetchUserException(user_id), "HTTPException")
             THEN Raised("UserNotFound", <<user_id>>)
             ELSE Returned(user_id, <<user_id>>)
\* a mutant of solidify_actor_abstract: the exception of fetch_user is not caught
solidify_without_except(actor_abstract) ==
    IF actor_abstract[1] = "None" THEN Raised("UserNotFound", <<>>)
    ELSE IF actor_abstract[1] = "Actor" THEN Returned(actor_abstract[2], <<>>)
    ELSE IF actor_abstract[1] = "str" /\ ~IntParses(actor_abstract[2])
    THEN Raised("ValueError", <<>>)
    ELSE LET user_id == IF actor_abstract[1] = "str" THEN IntOf(actor_abstract[2])
                        ELSE actor_abstract[2]
         IN  IF FetchUserException(user_id) # "none"
             THEN Raised(FetchUserException(user_id), <<user_id>>)
             ELSE Returned(user_id, <<user_id>>)
solidify_actor_abstract(actor_abstract) ==
    IF actor_abstract[1] = "None" THEN Raised("UserNotFound", <<>>)
    ELSE IF actor_abstract[1] = "Actor" THEN Returned(actor_abstract[2], <<>>)
    ELSE IF actor_abstract[1] = "str" /\ ~IntParses(actor_abstract[2])
    THEN Raised("ValueError", <<>>)
    ELSE LET user_id == IF actor_abstract[1] = "str" THEN IntOf(actor_abstract[2])
                        ELSE actor_abstract[2]
         IN  IF IsInstance(FetchUserException(user_id), "HTTPException")
             THEN Raised("UserNotFound", <<user_id>>)
             ELSE Returned(user_id, <<user_id>>)

InitCommand ==
    /\ pc = "idle"
    /\ invocations = 0
    /\ ctx = NoCtx
    /\ solidified_actor = 0
    /\ is_self_alert = FALSE
    /\ log = <<>>
    /\ guards = <<>>
    /\ probe_ret = "none"
    /\ probe_i = 0
    /\ probe_mgs = <<>>
    /\ probe_outcomes = <<>>
    /\ self_mutual_mgs = <<>>
    /\ mutual_mgs = <<>>
    /\ alerting_server_name = <<>>
    /\ options = <<>>
    /\ origin = NoOrigin
    /\ testing_guilds_only = FALSE
    /\ guilds_to_alert = <<>>
    /\ send_i = 0
    /\ exception = NoException

\* ctx.respond(...), ctx.defer(), interaction.edit_original_response(...)
Respond(message) == <<"respond", message>>
Defer == <<"defer", "">>
Edit(result) == <<"edit", result>>

\* Discord delivers an invocation of /alert; an invoker in an alert guild is one
\* of its members
slash_alert(guild, author, user_id) ==
    /\ pc \in {"idle", "done"}
    /\ invocations < MaxInvocations
    /\ guild \in AlertGuildIds => author \in roster[guild]
    /\ invocations' = invocations + 1
    /\ ctx' = [guild |-> guild, author |-> author, user_id |-> user_id]
    /\ pc' = "validate_command_environment"
    /\ solidified_actor' = 0
    /\ is_self_alert' = FALSE
    /\ log' = <<>>
    /\ guards' = <<>>
    /\ probe_ret' = "none" /\ probe_i' = 0 /\ probe_mgs' = <<>> /\ probe_outcomes' = <<>>
    /\ self_mutual_mgs' = <<>> /\ mutual_mgs' = <<>>
    /\ alerting_server_name' = <<>> /\ options' = <<>> /\ origin' = NoOrigin
    /\ testing_guilds_only' = FALSE /\ guilds_to_alert' = <<>> /\ send_i' = 0
    /\ exception' = NoException
    /\ UNCHANGED index_vars

\* determine_command_environment: the class of the environment of the command
determine_command_environment(guild) ==
    IF guild # "None"
    THEN (IF DictHas(ALL_ENABLED_GUILDS, guild) THEN DictGet(ALL_ENABLED_GUILDS, guild).cls
          ELSE "Guild")
    ELSE "DMChannel"

validate_command_environment ==
    /\ pc = "validate_command_environment"
    /\ IF determine_command_environment(ctx.guild) # "AlertGuild"
       THEN /\ log' = Append(log, Respond("invalid_location"))
            /\ pc' = "done"
       ELSE /\ pc' = "validate_user_id_format"
            /\ UNCHANGED log
    /\ guards' = Append(guards, "environment")
    /\ UNCHANGED <<invocations, ctx, solidified_actor, is_self_alert, probe_vars,
                   self_mutual_mgs, mutual_mgs, origin_vars, send_vars, exception>>
    /\ UNCHANGED index_vars

\* a mutant of validate_user_id_format: the moderator check comes next, before
\* the actor is resolved
validate_user_id_format_then_moderator ==
    /\ pc = "validate_user_id_format"
    /\ IF ~IsDigit(ctx.user_id)
       THEN /\ log' = Append(log, Respond("bad_format"))
            /\ pc' = "done"
       ELSE /\ pc' = "moderator_check"
            /\ UNCHANGED log
    /\ guards' = Append(guards, "format")
    /\ UNCHANGED <<invocations, ctx, solidified_actor, is_self_alert, probe_vars,
                   self_mutual_mgs, mutual_mgs, origin_vars, send_vars, exception>>
    /\ UNCHANGED index_vars

validate_user_id_format ==
    /\ pc = "validate_user_id_format"
    /\ IF ~IsDigit(ctx.user_id)
       THEN /\ log' = Append(log, Respond("bad_format"))
            /\ pc' = "done"
       ELSE /\ pc' = "get_and_validate_user_from_id"
            /\ UNCHANGED log
    /\ guards' = Append(guards, "format")
    /\ UNCHANGED <<invocations, ctx, solidified_actor, is_self_alert, probe_vars,
                   self_mutual_mgs, mutual_mgs, origin_vars, send_vars, exception>>
    /\ UNCHANGED index_vars

\* get_and_validate_user_from_id: solidify_actor_abstract of the str; UserNotFound
\* is answered and becomes CommandUserError, any other exception leaves slash_alert
get_and_validate_user_from_id ==
    /\ pc = "get_and_validate_user_from_id"
    /\ LET call == solidify_actor_abstract(PyStr(ctx.user_id))
           fetches == [i \in 1..Len(call.fetched) |-> <<"fetch_user", call.fetched[i]>>]
       IN  IF call.raised = "UserNotFound"
           THEN /\ log' = log \o fetches \o <<Respond("user_not_found")>>
                /\ pc' = "done"
                /\ UNCHANGED <<solidified_actor, exception>>
           ELSE IF call.raised # "none"
           THEN /\ exception' = <<call.raised, "solidify_actor_abstract">>
                /\ log' = log \o fetches
                /\ pc' = "on_application_command_error"
                /\ UNCHANGED solidified_actor
           ELSE /\ log' = log \o fetches
                /\ solidified_actor' = call.actor
                /\ pc' = "moderator_check"
                /\ UNCHANGED exception
    /\ guards' = Append(guards, "resolution")
    /\ UNCHANGED <<invocations, ctx, is_self_alert, probe_vars,
                   self_mutual_mgs, mutual_mgs, origin_vars, send_vars>>
    /\ UNCHANGED index_vars

\* slash_alert, lines 530 to 540: the moderator check
IsSelfAlert(actor, author) == actor = author
\* a mutant of ModeratorBlocked: the self-alert exemption is missing
ModeratorBlockedAlsoSelf(user_id, self_alert) ==
    /\ PyStr(user_id) \in alert_guild_members
    /\ user_id \notin TESTING_USER_IDS
\* a mutant of ModeratorBlocked: the lookup sees the joins that Discord has
\* emitted and on_member_join has not handled yet
ModeratorBlockedSeesPending(user_id, self_alert) ==
    /\ PyStr(user_id) \in alert_guild_members \cup
          {PyStr(StrOf(events[i][2])) :
              i \in {j \in 1..Len(events) : events[j][1] = "join" /\ DictHas(ENABLED_ALERT_GUILDS, events[j][3])}}
    /\ user_id \notin TESTING_USER_IDS
    /\ ~self_alert
\* a mutant of ModeratorBlocked: the exemption of the testing user ids is missing
ModeratorBlockedAlsoTesters(user_id, self_alert) ==
    /\ PyStr(user_id) \in alert_guild_members
    /\ ~self_alert
ModeratorBlocked(user_id, self_alert) ==
    /\ PyStr(user_id) \in alert_guild_members
    /\ user_id \notin TESTING_USER_IDS
    /\ ~self_alert

moderator_check ==
    /\ pc = "moderator_check"
    /\ is_self_alert' = IsSelfAlert(solidified_actor, ctx.author)
    /\ IF ModeratorBlocked(ctx.user_id, IsSelfAlert(solidified_actor, ctx.author))
       THEN /\ log' = log \o << <<"lookup", "blocked">>, Respond("moderator") >>
            /\ pc' = "done"
       ELSE /\ log' = Append(log, <<"lookup", "passed">>)
            /\ pc' = "defer"
    /\ guards' = Append(guards, "moderator")
    /\ UNCHANGED <<invocations, ctx, solidified_actor, probe_vars,
                   self_mutual_mgs, mutual_mgs, origin_vars, send_vars, exception>>
    /\ UNCHANGED index_vars

\* a mutant of defer: the interaction is not deferred
defer_omitted ==
    /\ pc = "defer"
    /\ pc' = IF is_self_alert THEN "send_self_alert" ELSE "determine_alert_server"
    /\ UNCHANGED <<guards, invocations, ctx, solidified_actor, is_self_alert, log, probe_vars,
                   self_mutual_mgs, mutual_mgs, origin_vars, send_vars, exception>>
    /\ UNCHANGED index_vars

\* slash_alert, line 545
defer ==
    /\ pc = "defer"
    /\ log' = Append(log, Defer)
    /\ pc' = IF is_self_alert THEN "send_self_alert" ELSE "determine_alert_server"
    /\ UNCHANGED <<guards, invocations, ctx, solidified_actor, is_self_alert, probe_vars,
                   self_mutual_mgs, mutual_mgs, origin_vars, send_vars, exception>>
    /\ UNCHANGED index_vars

\* get_mutual_monitored_guilds is entered: mutual_mgs = []
ProbeCall(caller) ==
    /\ probe_ret' = caller
    /\ probe_i' = 1
    /\ probe_mgs' = <<>>
    /\ probe_outcomes' = <<>>

\* send_self_alert, lines 388 and 389
send_self_alert ==
    /\ pc = "send_self_alert"
    /\ ProbeCall("send_self_alert")
    /\ log' = Append(log, <<"probe", ctx.author>>)
    /\ pc' = "get_mutual_monitored_guilds"
    /\ UNCHANGED <<guards, invocations, ctx, solidified_actor, is_self_alert,
                   self_mutual_mgs, mutual_mgs, origin_vars, send_vars, exception>>
    /\ UNCHANGED index_vars

\* a mutant of ProbeAppends: the guild is appended also when permission is denied
ProbeAppendsDenied(exc) == exc \in {"none", "Forbidden"}
\* a mutant of ProbeCatches: HTTPException is not caught
ProbeCatchesForbiddenOnly(exc) == IsInstance(exc, "Forbidden")
\* the try statement of get_mutual_monitored_guilds: the guild is appended when
\* fetch_member returns; Forbidden and HTTPException are caught
ProbeAppends(exc) == exc = "none"
ProbeCatches(exc) == IsInstance(exc, "Forbidden") \/ IsInstance(exc, "HTTPException")

\* get_mutual_monitored_guilds: one turn of the loop over ENABLED_MONITORED_GUILDS
get_mutual_monitored_guilds(outcome) ==
    /\ pc = "get_mutual_monitored_guilds"
    /\ probe_i \in 1..Len(ENABLED_MONITORED_GUILDS)
    /\ log' = Append(log, <<"fetch_member", ENABLED_MONITORED_GUILDS[probe_i][2].id>>)
    /\ probe_outcomes' = Append(probe_outcomes, outcome)
    /\ IF ProbeAppends(FetchMemberException(outcome)) \/ ProbeCatches(FetchMemberException(outcome))
       THEN /\ probe_mgs' = IF ProbeAppends(FetchMemberException(outcome))
                            THEN Append(probe_mgs, ENABLED_MONITORED_GUILDS[probe_i][2].id)
                            ELSE probe_mgs
            /\ probe_i' = probe_i + 1
            /\ pc' = IF probe_i = Len(ENABLED_MONITORED_GUILDS) THEN "probe_return" ELSE pc
            /\ UNCHANGED exception
       ELSE /\ exception' = <<FetchMemberException(outcome), "fetch_member">>
            /\ pc' = "on_application_command_error"
            /\ UNCHANGED <<probe_mgs, probe_i>>
    /\ UNCHANGED <<guards, invocations, ctx, solidified_actor, is_self_alert, probe_ret,
                   self_mutual_mgs, mutual_mgs, origin_vars, send_vars>>
    /\ UNCHANGED index_vars

\* a mutant of GuildsToAlert: the testing filter is missing
GuildsToAlertUnfiltered(testing_only) ==
    [i \in 1..Len(ENABLED_ALERT_GUILDS) |-> ENABLED_ALERT_GUILDS[i][1]]
\* send_alerts, lines 464 to 467, for a given ENABLED_ALERT_GUILDS
GuildsToAlertIn(enabled_alert_guilds, testing_only) ==
    LET Included(kv) == ~(testing_only = TRUE /\ kv[2].testing = FALSE)
        kept == SelectSeq(enabled_alert_guilds, Included)
    IN  [i \in 1..Len(kept) |-> kept[i][1]]
GuildsToAlert(testing_only) == GuildsToAlertIn(ENABLED_ALERT_GUILDS, testing_only)

\* get_mutual_monitored_guilds returns mutual_mgs to its caller
probe_return ==
    /\ pc = "probe_return"
    /\ IF probe_ret = "send_self_alert"
       THEN /\ self_mutual_mgs' = probe_mgs
            /\ pc' = "determine_alert_server"
            /\ UNCHANGED <<mutual_mgs, guilds_to_alert, send_i>>
       ELSE /\ mutual_mgs' = probe_mgs
            /\ guilds_to_alert' = GuildsToAlert(testing_guilds_only)
            /\ send_i' = 1
            /\ pc' = "send"
            /\ UNCHANGED self_mutual_mgs
    /\ probe_ret' = "none" /\ probe_i' = 0 /\ probe_mgs' = <<>> /\ probe_outcomes' = <<>>
    /\ UNCHANGED <<guards, invocations, ctx, solidified_actor, is_self_alert, log,
                   origin_vars, testing_guilds_only, exception>>
    /\ UNCHANGED index_vars

\* determine_alert_server, lines 323 to 334
NotificationRoleIds(alert_guild) == Range(DictValues(alert_guild.guild_notification_roles))
RoleNames(roles, ids) ==
    LET Kept(role) == role.id \in ids
        kept == SelectSeq(roles, Kept)
    IN  [i \in 1..Len(kept) |-> kept[i].name]
\* a mutant of MemberNotificationRoles: every role of the member counts
MemberRolesUnfiltered(alert_guild, held) == RoleNames(GuildRoles(alert_guild.id), held)
\* the names of the member's roles that are notification roles; held is the set
\* of ids of the roles of the member
MemberNotificationRoles(alert_guild, held) ==
    RoleNames(GuildRoles(alert_guild.id), held \cap NotificationRoleIds(alert_guild))
\* a mutant of SelectOptions: the options are always all the mapped roles
SelectOptionsAll(alert_guild, member_notification_roles) ==
    RoleNames(GuildRoles(alert_guild.id), NotificationRoleIds(alert_guild))
SelectOptions(alert_guild, member_notification_roles) ==
    IF member_notification_roles # <<>> THEN member_notification_roles
    ELSE RoleNames(GuildRoles(alert_guild.id), NotificationRoleIds(alert_guild))

\* where the caller of determine_alert_server goes on
AfterOrigin == IF is_self_alert THEN "send_self_alert_respond" ELSE "send_alerts"

\* determine_alert_server up to its return or to the dispatch of the view
determine_alert_server(held) ==
    /\ pc = "determine_alert_server"
    /\ IF ctx.guild = "None" \/ ~DictHas(ALL_ENABLED_GUILDS, ctx.guild)
       THEN /\ exception' = <<"GuildNotFound", "determine_alert_server">>
            /\ pc' = "on_application_command_error"
            /\ UNCHANGED <<log, origin_vars>>
       ELSE IF /\ DictHas(ENABLED_MONITORED_GUILDS, ctx.guild)
               /\ ~DictHas(ENABLED_TESTING_GUILDS, ctx.guild)
       THEN /\ alerting_server_name' = DictGet(ENABLED_MONITORED_GUILDS, ctx.guild).name
            /\ pc' = AfterOrigin
            /\ UNCHANGED <<log, options, origin, exception>>
       ELSE IF ~DictHas(ENABLED_ALERT_GUILDS, ctx.guild)
       THEN /\ exception' = <<"KeyError", "determine_alert_server">>
            /\ pc' = "on_application_command_error"
            /\ UNCHANGED <<log, origin_vars>>
       ELSE LET invoking_alert_guild == DictGet(ENABLED_ALERT_GUILDS, ctx.guild)
                member_notification_roles == MemberNotificationRoles(invoking_alert_guild, held)
            IN  IF Len(member_notification_roles) = 1
                THEN /\ alerting_server_name' = member_notification_roles[1]
                     /\ origin' = [origin EXCEPT !.roles = held]
                     /\ pc' = AfterOrigin
                     /\ UNCHANGED <<log, options, exception>>
                ELSE /\ options' = SelectOptions(invoking_alert_guild, member_notification_roles)
                     /\ origin' = [origin EXCEPT
                            !.roles = held,
                            !.prompts = Append(@, SelectOptions(invoking_alert_guild,
                                                                member_notification_roles))]
                     /\ log' = Append(log, Respond("prompt"))
                     /\ pc' = "wait"
                     /\ UNCHANGED <<alerting_server_name, exception>>
    /\ UNCHANGED <<guards, invocations, ctx, solidified_actor, is_self_alert, probe_vars,
                   self_mutual_mgs, mutual_mgs, send_vars>>
    /\ UNCHANGED index_vars

\* ServerSelectView.select_callback: the user picks one option, the wait ends and
\* determine_alert_server returns the selection
select_callback(choice) ==
    /\ pc = "wait"
    /\ choice \in 1..Len(options)
    /\ alerting_server_name' = options[choice]
    /\ origin' = [origin EXCEPT !.choice = choice]
    /\ options' = <<>>
    /\ pc' = AfterOrigin
    /\ UNCHANGED <<guards, invocations, ctx, solidified_actor, is_self_alert, log, probe_vars,
                   self_mutual_mgs, mutual_mgs, send_vars, exception>>
    /\ UNCHANGED index_vars

\* a mutant of view_timeout: the view has no timeout
view_without_timeout ==
    /\ pc = "wait"
    /\ FALSE
    /\ UNCHANGED cmd_vars
    /\ UNCHANGED index_vars

\* a mutant of view_timeout: after the timeout determine_alert_server returns,
\* with no name
view_timeout_returns ==
    /\ pc = "wait"
    /\ origin' = [origin EXCEPT !.abandoned = TRUE]
    /\ options' = <<>>
    /\ pc' = AfterOrigin
    /\ UNCHANGED <<guards, invocations, ctx, solidified_actor, is_self_alert, log, probe_vars,
                   self_mutual_mgs, mutual_mgs, alerting_server_name, send_vars, exception>>
    /\ UNCHANGED index_vars

\* the view times out: the wait ends with ServerSelectView.selection never set,
\* and reading it raises AttributeError
view_timeout ==
    /\ pc = "wait"
    /\ exception' = <<"AttributeError", "determine_alert_server">>
    /\ origin' = [origin EXCEPT !.abandoned = TRUE]
    /\ options' = <<>>
    /\ pc' = "on_application_command_error"
    /\ UNCHANGED <<guards, invocations, ctx, solidified_actor, is_self_alert, log, probe_vars,
                   self_mutual_mgs, mutual_mgs, alerting_server_name, send_vars>>
    /\ UNCHANGED index_vars

\* send_self_alert, lines 392 to 421: the two responses to the invoker
send_self_alert_respond ==
    /\ pc = "send_self_alert_respond"
    /\ log' = log \o <<Respond("self_notice"), Respond("self_alert")>>
    /\ self_mutual_mgs' = <<>>
    /\ pc' = "send_alerts"
    /\ UNCHANGED <<guards, invocations, ctx, solidified_actor, is_self_alert, probe_vars,
                   mutual_mgs, origin_vars, send_vars, exception>>
    /\ UNCHANGED index_vars

\* a mutant of TestingGuildsOnly: send_self_alert passes what slash_alert passes
TestingGuildsOnlyByGuild == DictHas(ENABLED_TESTING_GUILDS, ctx.guild)
\* a mutant of TestingGuildsOnly: slash_alert leaves the argument at its default
TestingGuildsOnlyDefault == IF is_self_alert THEN TRUE ELSE FALSE
\* the testing_guilds_only argument: True from send_self_alert (line 430), and
\* from slash_alert whether the invoking guild is a testing guild (line 567)
TestingGuildsOnly == IF is_self_alert THEN TRUE ELSE DictHas(ENABLED_TESTING_GUILDS, ctx.guild)

\* send_alerts, lines 446 to 462
send_alerts ==
    /\ pc = "send_alerts"
    /\ testing_guilds_only' = TestingGuildsOnly
    /\ ProbeCall("send_alerts")
    /\ log' = log \o << <<"send_alerts", TestingGuildsOnly>>, <<"probe", solidified_actor>> >>
    /\ pc' = "get_mutual_monitored_guilds"
    /\ UNCHANGED <<guards, invocations, ctx, solidified_actor, is_self_alert,
                   self_mutual_mgs, mutual_mgs, origin_vars, guilds_to_alert, send_i, exception>>
    /\ UNCHANGED index_vars

\* send_alerts, lines 470 to 483: one turn of the loop; a send that raises ends
\* send_alerts and slash_alert
send(ok) ==
    /\ pc = "send"
    /\ send_i \in 1..Len(guilds_to_alert)
    /\ IF ok
       THEN /\ log' = Append(log, <<"send", guilds_to_alert[send_i], "ok">>)
            /\ send_i' = send_i + 1
            /\ UNCHANGED <<pc, exception>>
       ELSE /\ log' = Append(log, <<"send", guilds_to_alert[send_i], "HTTPException">>)
            /\ exception' = <<"HTTPException", "send">>
            /\ pc' = "on_application_command_error"
            /\ UNCHANGED send_i
    /\ UNCHANGED <<guards, invocations, ctx, solidified_actor, is_self_alert, probe_vars,
                   self_mutual_mgs, mutual_mgs, origin_vars, testing_guilds_only, guilds_to_alert>>
    /\ UNCHANGED index_vars

\* send_alerts returns: to send_self_alert, which returns, or to slash_alert
send_alerts_return ==
    /\ pc = "send"
    /\ send_i = Len(guilds_to_alert) + 1
    /\ mutual_mgs' = <<>>
    /\ pc' = IF is_self_alert THEN "done" ELSE "acknowledge"
    /\ UNCHANGED <<guards, invocations, ctx, solidified_actor, is_self_alert, log, probe_vars,
                   self_mutual_mgs, origin_vars, send_vars, exception>>
    /\ UNCHANGED index_vars

\* a mutant of acknowledge: the acknowledgment is a response, with no edit tried
acknowledge_by_respond(edited) ==
    /\ pc = "acknowledge"
    /\ log' = Append(log, Respond("success"))
    /\ pc' = "done"
    /\ UNCHANGED <<guards, invocations, ctx, solidified_actor, is_self_alert, probe_vars,
                   self_mutual_mgs, mutual_mgs, origin_vars, send_vars, exception>>
    /\ UNCHANGED index_vars

\* a mutant of acknowledge: when the edit raises, nothing is sent in its place
acknowledge_without_fallback(edited) ==
    /\ pc = "acknowledge"
    /\ log' = IF edited THEN Append(log, Edit("ok")) ELSE Append(log, Edit("HTTPException"))
    /\ pc' = "done"
    /\ UNCHANGED <<guards, invocations, ctx, solidified_actor, is_self_alert, probe_vars,
                   self_mutual_mgs, mutual_mgs, origin_vars, send_vars, exception>>
    /\ UNCHANGED index_vars

\* slash_alert, lines 574 to 578
acknowledge(edited) ==
    /\ pc = "acknowledge"
    /\ log' = IF edited THEN Append(log, Edit("ok"))
              ELSE log \o <<Edit("HTTPException"), Respond("success")>>
    /\ pc' = "done"
    /\ UNCHANGED <<guards, invocations, ctx, solidified_actor, is_self_alert, probe_vars,
                   self_mutual_mgs, mutual_mgs, origin_vars, send_vars, exception>>
    /\ UNCHANGED index_vars

\* a mutant of on_application_command_error: the exception is logged, and the
\* invoker is told nothing
on_application_command_error_silent ==
    /\ pc = "on_application_command_error"
    /\ pc' = "done"
    /\ UNCHANGED <<guards, invocations, ctx, solidified_actor, is_self_alert, log, probe_vars,
                   self_mutual_mgs, mutual_mgs, origin_vars, send_vars, exception>>
    /\ UNCHANGED index_vars

\* FCYBot.on_application_command_error
on_application_command_error ==
    /\ pc = "on_application_command_error"
    /\ log' = Append(log, Respond("unknown_error"))
    /\ pc' = "done"
    /\ UNCHANGED <<guards, invocations, ctx, solidified_actor, is_self_alert, probe_vars,
                   self_mutual_mgs, mutual_mgs, origin_vars, send_vars, exception>>
    /\ UNCHANGED index_vars

NextCommand ==
    \/ \E guild \in CommandGuilds, author \in Actors, user_id \in UserIdInputs :
          slash_alert(guild, author, user_id)
    \/ validate_command_environment
    \/ validate_user_id_format
    \/ get_and_validate_user_from_id
    \/ moderator_check
    \/ defer
    \/ send_self_alert
    \/ \E outcome \in Outcomes : get_mutual_monitored_guilds(outcome)
    \/ probe_return
    \/ \E held \in SUBSET Range([i \in 1..Len(GuildRoles(ctx.guild)) |-> GuildRoles(ctx.guild)[i].id]) :
          determine_alert_server(held)
    \/ \E choice \in 1..Len(options) : select_callback(choice)
    \/ view_timeout
    \/ send_self_alert_respond
    \/ send_alerts
    \/ \E ok \in BOOLEAN : send(ok)
    \/ send_alerts_return
    \/ \E edited \in BOOLEAN : acknowledge(edited)
    \/ on_application_command_error

vars == <<alert_guild_members, roster, events, emitted, populate_pc, listener,
          pc, invocations, ctx, solidified_actor, is_self_alert, log, guards, probe_ret, probe_i,
          probe_mgs, probe_outcomes, self_mutual_mgs, mutual_mgs, alerting_server_name,
          options, origin, testing_guilds_only, guilds_to_alert, send_i, exception,
          decoration, resolution, registry>>

NoDecoration == [called |-> FALSE, self |-> LUX_DEV_AG, mutual_guilds |-> <<>>, returned |-> <<>>]
NotCalled == [raised |-> "not called", actor |-> 0, fetched |-> <<>>]
NoResolution == [actor_abstract |-> <<"None", 0>>, calls |-> 0, first |-> NotCalled, second |-> NotCalled]
NoRegistry == [objects |-> <<>>, loaded |-> FALSE, all |-> <<>>, enabled |-> <<>>, error |-> "none"]
Init ==
    /\ InitIndex
    /\ InitCommand
    /\ decoration = NoDecoration
    /\ resolution = NoResolution
    /\ registry = NoRegistry

\* on_ready, which runs while commands arrive
NextReady == on_ready \/ populate_alert_guild_members

Next == NextReady \/ NextCommand

\* The command reads the index in moderator_check alone, and the member
\* listeners read nothing of a command: the command is checked with on_ready
\* populating the index beside it, the index with Discord's member events.
Spec == Init /\ [][Next]_vars
SpecIndex == Init /\ [][NextIndex]_vars
\* ServerSelectView is built with the default timeout of discord.ui.View: while
\* the invocation waits for a selection the timer runs, and it fires
SpecLive == Spec /\ WF_vars(view_timeout)
\* the steps an invocation takes by itself once Discord has delivered it: every
\* await of slash_alert returns or raises, and the event loop resumes the
\* coroutine; the pick of an option is the user's step and is not among them
Proceed ==
    \/ validate_command_environment
    \/ validate_user_id_format
    \/ get_and_validate_user_from_id
    \/ moderator_check
    \/ defer
    \/ send_self_alert
    \/ \E outcome \in Outcomes : get_mutual_monitored_guilds(outcome)
    \/ probe_return
    \/ \E held \in SUBSET Range([i \in 1..Len(GuildRoles(ctx.guild)) |-> GuildRoles(ctx.guild)[i].id]) :
          determine_alert_server(held)
    \/ view_timeout
    \/ send_self_alert_respond
    \/ send_alerts
    \/ \E ok \in BOOLEAN : send(ok)
    \/ send_alerts_return
    \/ \E edited \in BOOLEAN : acknowledge(edited)
    \/ on_application_command_error
SpecFair == Spec /\ WF_vars(Proceed)

\* The index under every interleaving of its writers and its reader: Discord's
\* member events and their listeners, on_ready, and invocations of /alert that
\* name a member or a newcomer, followed up to the moderator check, the one
\* place where a command reads the index
LookupInputs == {<<"1">>, <<"3">>}
NextAtomic ==
    \/ NextIndex
    \/ \E guild \in AlertGuildIds, author \in Actors, user_id \in LookupInputs :
          slash_alert(guild, author, user_id)
    \/ validate_command_environment
    \/ validate_user_id_format
    \/ get_and_validate_user_from_id
    \/ moderator_check
SpecAtomic == Init /\ [][NextAtomic]_vars

\* determine_alert_server on its own: it is called for an invocation from any
\* of the guilds a command may come from, by any invoker, on either path
InitOrigin ==
    /\ InitIndex
    /\ decoration = NoDecoration
    /\ resolution = NoResolution
    /\ registry = NoRegistry
    /\ pc = "determine_alert_server"
    /\ invocations = 1
    /\ \E guild \in CommandGuilds, author \in Actors :
          ctx = [guild |-> guild, author |-> author, user_id |-> <<>>]
    /\ solidified_actor = 0
    /\ is_self_alert \in BOOLEAN
    /\ log = <<>>
    /\ guards = <<>>
    /\ probe_ret = "none"
    /\ probe_i = 0
    /\ probe_mgs = <<>>
    /\ probe_outcomes = <<>>
    /\ self_mutual_mgs = <<>>
    /\ mutual_mgs = <<>>
    /\ alerting_server_name = <<>>
    /\ options = <<>>
    /\ origin = NoOrigin
    /\ testing_guilds_only = FALSE
    /\ guilds_to_alert = <<>>
    /\ send_i = 0
    /\ exception = NoException
NextOrigin ==
    \/ \E held \in SUBSET Range([i \in 1..Len(GuildRoles(ctx.guild)) |-> GuildRoles(ctx.guild)[i].id]) :
          determine_alert_server(held)
    \/ \E choice \in 1..Len(options) : select_callback(choice)
    \/ view_timeout
SpecOrigin == InitOrigin /\ [][NextOrigin]_vars

\* decorate_mutual_guilds on its own: self is an alert guild of the registry, or
\* one with no guild_notification_roles; mutual_guilds is any list of monitored
\* guilds of the registry
Destinations ==
    {ALL_ALERT_GUILDS[i][2] : i \in 1..Len(ALL_ALERT_GUILDS)}
        \cup {[SMS_AG EXCEPT !.guild_notification_roles = NoRoleMap]}
MutualGuildLists ==
    UNION {[1..n -> Range(DictValues(ALL_MONITORED_GUILDS))] : n \in 0..MaxMutual}
InitDecorate ==
    /\ InitIndex
    /\ InitCommand
    /\ \E self \in Destinations, mutual_guilds \in MutualGuildLists :
          decoration = [called |-> FALSE, self |-> self, mutual_guilds |-> mutual_guilds,
                        returned |-> <<>>]
    /\ resolution = NoResolution
    /\ registry = NoRegistry
call_decorate_mutual_guilds ==
    /\ ~decoration.called
    /\ decoration' = [decoration EXCEPT
          !.called = TRUE,
          !.returned = decorate_mutual_guilds(decoration.self, decoration.mutual_guilds)]
    /\ UNCHANGED <<resolution, registry>>
    /\ UNCHANGED <<alert_guild_members, roster, events, emitted, populate_pc, listener>>
    /\ UNCHANGED <<pc, invocations, ctx, solidified_actor, is_self_alert, log, guards,
                   probe_vars, self_mutual_mgs, mutual_mgs, origin_vars, send_vars, exception>>
NextDecorate == call_decorate_mutual_guilds
SpecDecorate == InitDecorate /\ [][NextDecorate]_vars

\* solidify_actor_abstract on its own: it is called with None, with an Actor,
\* with an int or with a str, and called again with the Actor it returned
IdChars == {"0", "1", "2", "3", "9", "a", "sup2"}
StrAbstracts == UNION {[1..n -> IdChars] : n \in 0..MaxIdLen}
ActorAbstracts ==
    {PyNone} \cup {Actor(a) : a \in Actors} \cup {PyInt(n) : n \in Actors \cup {0, 9, 99}}
        \cup {PyStr(str) : str \in StrAbstracts}
InitResolve ==
    /\ InitIndex
    /\ InitCommand
    /\ decoration = NoDecoration
    /\ registry = NoRegistry
    /\ \E actor_abstract \in ActorAbstracts :
          resolution = [actor_abstract |-> actor_abstract, calls |-> 0,
                        first |-> NotCalled, second |-> NotCalled]
call_solidify_actor_abstract ==
    /\ resolution.calls = 0
    /\ resolution' = [resolution EXCEPT
          !.calls = 1,
          !.first = solidify_actor_abstract(resolution.actor_abstract)]
    /\ UNCHANGED <<alert_guild_members, roster, events, emitted, populate_pc, listener>>
    /\ UNCHANGED <<pc, invocations, ctx, solidified_actor, is_self_alert, log, guards,
                   probe_vars, self_mutual_mgs, mutual_mgs, origin_vars, send_vars, exception>>
    /\ UNCHANGED <<decoration, registry>>
call_solidify_actor_abstract_again ==
    /\ resolution.calls = 1
    /\ resolution.first.raised = "none"
    /\ resolution' = [resolution EXCEPT
          !.calls = 2,
          !.second = solidify_actor_abstract(Actor(resolution.first.actor))]
    /\ UNCHANGED <<alert_guild_members, roster, events, emitted, populate_pc, listener>>
    /\ UNCHANGED <<pc, invocations, ctx, solidified_actor, is_self_alert, log, guards,
                   probe_vars, self_mutual_mgs, mutual_mgs, origin_vars, send_vars, exception>>
    /\ UNCHANGED <<decoration, registry>>
NextResolve == call_solidify_actor_abstract \/ call_solidify_actor_abstract_again
SpecResolve == InitResolve /\ [][NextResolve]_vars

\* the load of fcy_constants on its own, for the guild objects of one class: the
\* module defines some MonitoredGuild objects, and builds its dicts from them
GuildObjects == {MonitoredGuild(id, name, enabled, FALSE) : id \in {"1", "2"}, name \in {<<"A">>, <<"b">>}, enabled \in BOOLEAN}
InitRegistry ==
    /\ InitIndex
    /\ InitCommand
    /\ decoration = NoDecoration
    /\ resolution = NoResolution
    /\ \E objects \in UNION {[1..n -> GuildObjects] : n \in 0..MaxObjects} :
          registry = [NoRegistry EXCEPT !.objects = objects]
\* a mutant of load_registry: the enabled view keeps the disabled objects
load_registry_keeps_disabled ==
    /\ ~registry.loaded
    /\ registry' = [registry EXCEPT
          !.loaded = TRUE,
          !.all = DictById(SortedByName(registry.objects)),
          !.enabled = DictById(SortedByName(registry.objects))]
    /\ UNCHANGED <<alert_guild_members, roster, events, emitted, populate_pc, listener>>
    /\ UNCHANGED <<pc, invocations, ctx, solidified_actor, is_self_alert, log, guards,
                   probe_vars, self_mutual_mgs, mutual_mgs, origin_vars, send_vars, exception>>
    /\ UNCHANGED <<decoration, resolution>>
load_registry ==
    /\ ~registry.loaded
    /\ registry' = [registry EXCEPT
          !.loaded = TRUE,
          !.all = DictById(SortedByName(registry.objects)),
          !.enabled = SelectSeq(DictById(SortedByName(registry.objects)), IsEnabled)]
    /\ UNCHANGED <<alert_guild_members, roster, events, emitted, populate_pc, listener>>
    /\ UNCHANGED <<pc, invocations, ctx, solidified_actor, is_self_alert, log, guards,
                   probe_vars, self_mutual_mgs, mutual_mgs, origin_vars, send_vars, exception>>
    /\ UNCHANGED <<decoration, resolution>>
NextRegistry == load_registry
SpecRegistry == InitRegistry /\ [][NextRegistry]_vars

\* send_alerts on its own, for any registry of alert guilds with distinct ids:
\* fcy_constants is loaded, send_alerts is called with either value of
\* testing_guilds_only, and each send returns or raises
AlertGuildChoices == {AlertGuild(id, <<"A", id>>, "", "", NoRoleMap, enabled, testing) : id \in {"1", "2", "3"}, enabled \in BOOLEAN, testing \in BOOLEAN}
DistinctIds(objects) == \A i, j \in 1..Len(objects) : objects[i].id = objects[j].id => i = j
InitDispatch ==
    /\ InitIndex
    /\ InitCommand
    /\ decoration = NoDecoration
    /\ resolution = NoResolution
    /\ \E objects \in UNION {[1..n -> AlertGuildChoices] : n \in 0..MaxObjects} :
          /\ DistinctIds(objects)
          /\ registry = [NoRegistry EXCEPT !.objects = objects]
\* send_alerts up to its loop, lines 464 to 467
call_send_alerts(testing_only) ==
    /\ pc = "idle"
    /\ registry.loaded
    /\ testing_guilds_only' = testing_only
    /\ guilds_to_alert' = GuildsToAlertIn(registry.enabled, testing_only)
    /\ send_i' = 1
    /\ log' = << <<"send_alerts", testing_only>> >>
    /\ pc' = "send"
    /\ UNCHANGED <<guards, invocations, ctx, solidified_actor, is_self_alert, probe_vars,
                   self_mutual_mgs, mutual_mgs, origin_vars, exception>>
    /\ UNCHANGED index_vars
NextDispatch ==
    \/ load_registry
    \/ \E testing_only \in BOOLEAN : call_send_alerts(testing_only)
    \/ \E ok \in BOOLEAN : send(ok)
    \/ send_alerts_return
SpecDispatch == InitDispatch /\ [][NextDispatch]_vars

(***************************************************************************)
(* The claims.                                                             *)
(***************************************************************************)
Quiescent == events = <<>> /\ PopulateDone
InIndex(a) == JoinKey(a) \in alert_guild_members
Logged(entry) == \E i \in 1..Len(log) : log[i] = entry
DeferredBefore(i) == \E j \in 1..(i - 1) : log[j] = Defer
\* the part of the log after the last entry into get_mutual_monitored_guilds
ProbeSegment ==
    LET starts == {i \in 1..Len(log) : log[i][1] = "probe"}
        last == CHOOSE i \in starts : \A j \in starts : j <= i
    IN  SubSeq(log, last + 1, Len(log))
EnabledMonitoredIds == [i \in 1..Len(ENABLED_MONITORED_GUILDS) |-> ENABLED_MONITORED_GUILDS[i][1]]
GuardMessages == {"invalid_location", "bad_format", "user_not_found", "moderator"}

\* C1: whenever no member event is in flight and populate_alert_guild_members
\* has completed, alert_guild_members holds exactly the ids (as str) of the
\* members of the enabled alert guilds.
C1_IndexEqualsRosters ==
    Quiescent =>
        alert_guild_members = {PyStr(StrOf(a)) : a \in UNION {roster[g] : g \in AlertGuildIds}}

C3_EverySendAttempted ==
    (pc = "done" /\ guilds_to_alert # <<>>) =>
        \A i \in 1..Len(guilds_to_alert) :
            \E j \in 1..Len(log) : log[j][1] = "send" /\ log[j][2] = guilds_to_alert[i]

\* C4, as claimed: the moderator lookup is made before any fetch_user, and a
\* request that the moderator check blocked made no fetch_user.
C4_ModeratorBeforeResolution ==
    /\ \A i \in 1..Len(log) :
          log[i][1] = "fetch_user" => \E j \in 1..(i - 1) : log[j][1] = "lookup"
    /\ Logged(Respond("moderator")) => \A i \in 1..Len(log) : log[i][1] # "fetch_user"
\* C4, amended: the guards run in the order environment, format, resolution,
\* moderator; every moderator lookup comes right after the one fetch_user of
\* the invocation, which resolved the actor.
C4_ResolutionBeforeModerator ==
    /\ \E n \in 0..4 :
          guards = SubSeq(<<"environment", "format", "resolution", "moderator">>, 1, n)
    /\ \A i \in 1..Len(log) :
          log[i][1] = "lookup" =>
              /\ i = 2
              /\ log[1] = <<"fetch_user", solidified_actor>>
              /\ solidified_actor \in Actors
\* a request the moderator check blocked
C4_Witness == pc = "done" /\ Logged(Respond("moderator")) /\ Logged(<<"lookup", "blocked">>)

\* C5: once the moderator check of a self-alert (the resolved actor is the
\* invoker) has run, it has passed: no moderator message was sent and the
\* invocation is on its way to, or past, the deferral, as a self-alert.
C5_SelfAlertNeverBlocked ==
    (solidified_actor # 0 /\ solidified_actor = ctx.author /\ \E i \in 1..Len(log) : log[i][1] = "lookup")
        => /\ Logged(<<"lookup", "passed">>)
           /\ ~Logged(Respond("moderator"))
           /\ is_self_alert
           /\ pc = "defer" \/ Logged(Defer)
\* a self-alert of an invoker whose id, as typed, is in the index and is no
\* testing id, about to enter send_self_alert
C5_Witness ==
    /\ pc = "send_self_alert"
    /\ solidified_actor = ctx.author
    /\ PyStr(ctx.user_id) \in alert_guild_members
    /\ ctx.user_id \notin TESTING_USER_IDS

\* C6: the interaction is deferred at most once, and every entry into
\* get_mutual_monitored_guilds, every fetch_member, every selection prompt and
\* every run of determine_alert_server comes after the deferral.
C6_DeferredBeforeWork ==
    /\ Cardinality({i \in 1..Len(log) : log[i] = Defer}) <= 1
    /\ \A i \in 1..Len(log) :
          (log[i][1] \in {"probe", "fetch_member"} \/ log[i] = Respond("prompt"))
              => DeferredBefore(i)
    /\ pc \in {"send_self_alert", "get_mutual_monitored_guilds", "probe_return",
               "determine_alert_server", "wait"} => Logged(Defer)
\* a self-alert that has probed and now waits for the selection
C6_Witness ==
    /\ pc = "wait"
    /\ is_self_alert
    /\ \E i \in 1..Len(log) : log[i][1] = "fetch_member"

C8_TestingOnlySkipsProduction ==
    Logged(<<"send_alerts", TRUE>>) =>
        /\ \A i \in 1..Len(log) :
              log[i][1] = "send" =>
                  /\ DictHas(ENABLED_ALERT_GUILDS, log[i][2])
                  /\ DictGet(ENABLED_ALERT_GUILDS, log[i][2]).testing = TRUE
        /\ pc \in {"acknowledge", "done", "on_application_command_error"} =>
              \A k \in 1..Len(ENABLED_ALERT_GUILDS) :
                  ENABLED_ALERT_GUILDS[k][2].testing = TRUE =>
                      \E i \in 1..Len(log) :
                          log[i][1] = "send" /\ log[i][2] = ENABLED_ALERT_GUILDS[k][1]
\* an alert that is no self-alert, raised from the testing guild and delivered
C8_Witness ==
    /\ pc = "done"
    /\ ~is_self_alert
    /\ Logged(<<"send_alerts", TRUE>>)
    /\ Logged(<<"send", LUX_DEV_AG.id, "ok">>)

\* C9: when get_mutual_monitored_guilds returns, every enabled monitored guild
\* has an outcome and mutual_mgs holds exactly the guilds whose outcome is
\* Present.
C9_ProbeResultIsPresent ==
    pc = "probe_return" =>
        /\ Len(probe_outcomes) = Len(ENABLED_MONITORED_GUILDS)
        /\ Range(probe_mgs) =
              {EnabledMonitoredIds[i] : i \in {k \in 1..Len(probe_outcomes) : probe_outcomes[k] = "Present"}}
\* permission denied, not present, present: the result is the third guild alone
C9_Witness ==
    /\ pc = "probe_return"
    /\ probe_outcomes = <<"PermissionDenied", "NotPresent", "Present">>
    /\ probe_mgs = <<EnabledMonitoredIds[3]>>

\* C10: no exception of fetch_member leaves get_mutual_monitored_guilds; while
\* it runs it has fetched from the first enabled monitored guilds, each once
\* and in order, and when it returns it has fetched from all of them.
C10_ProbeChecksEveryGuild ==
    /\ exception[2] # "fetch_member"
    /\ pc \in {"get_mutual_monitored_guilds", "probe_return"} =>
          ProbeSegment = [i \in 1..(probe_i - 1) |-> <<"fetch_member", EnabledMonitoredIds[i]>>]
    /\ pc = "probe_return" => probe_i = Len(ENABLED_MONITORED_GUILDS) + 1
\* every fetch failed, and the probe returns the empty list
C10_Witness ==
    /\ pc = "probe_return"
    /\ probe_outcomes = <<"TransientFailure", "PermissionDenied", "NotPresent">>
    /\ probe_mgs = <<>>

\* C11: the enabled monitored guilds are iterated in case-insensitive
\* alphabetical order of their names, and the guilds of mutual_mgs are at
\* strictly increasing positions of that order: none is there twice and their
\* order is the order of the registry.
C11_ProbeOrderedNoDuplicates ==
    /\ \A i, j \in 1..Len(ENABLED_MONITORED_GUILDS) :
          i < j => ~StrLess(Casefold(ENABLED_MONITORED_GUILDS[j][2].name),
                            Casefold(ENABLED_MONITORED_GUILDS[i][2].name))
    /\ pc \in {"get_mutual_monitored_guilds", "probe_return"} =>
          /\ Range(probe_mgs) \subseteq Range(EnabledMonitoredIds)
          /\ \A i, j \in 1..Len(probe_mgs) :
                i < j => IndexOf(EnabledMonitoredIds, probe_mgs[i])
                            < IndexOf(EnabledMonitoredIds, probe_mgs[j])
\* the actor is in every enabled monitored guild, and the probe returns the
\* three of them: /r/formula1, /r/WEC, Lux's Dev/Testing Server
C11_Witness ==
    /\ pc = "probe_return"
    /\ probe_mgs = <<R_F1_MG.id, R_WEC_MG.id, LUX_DEV_MG.id>>

\* C12: once determine_alert_server has run for an invocation from an enabled
\* monitored guild that is no testing guild, it has returned the name of that
\* guild to its caller, and it has dispatched no view.
C12_MonitoredGuildResolvesDirectly ==
    \A i \in 1..Len(ENABLED_MONITORED_GUILDS) :
        (/\ ENABLED_MONITORED_GUILDS[i][1] = ctx.guild
         /\ ENABLED_MONITORED_GUILDS[i][2].testing = FALSE
         /\ pc # "determine_alert_server")
            => /\ alerting_server_name = ENABLED_MONITORED_GUILDS[i][2].name
               /\ pc = AfterOrigin
               /\ origin.prompts = <<>>
               /\ ~Logged(Respond("prompt"))
               /\ exception = NoException
\* determine_alert_server has returned "/r/formula1" for an invocation from /r/formula1
C12_Witness ==
    /\ ctx.guild = R_F1_MG.id
    /\ pc = "send_alerts"
    /\ alerting_server_name = R_F1_MG.name
    /\ origin.prompts = <<>>

\* C13: an invocation is answered "invalid location" only when it comes from
\* outside every enabled guild; one that comes from an enabled monitored guild
\* that is no testing guild passes the environment guard.
C13_RejectsOnlyOutsideEnabledGuilds ==
    /\ Logged(Respond("invalid_location")) =>
          (ctx.guild = "None" \/ ctx.guild \notin DictKeys(ALL_ENABLED_GUILDS))
    /\ \A i \in 1..Len(ENABLED_MONITORED_GUILDS) :
          (/\ ENABLED_MONITORED_GUILDS[i][1] = ctx.guild
           /\ ENABLED_MONITORED_GUILDS[i][2].testing = FALSE
           /\ guards # <<>>)
              => pc # "done" \/ Len(guards) > 1

\* the ids of the roles that guild_notification_roles of an alert guild maps to
MappedRoleIds(ag) == {ag.guild_notification_roles[m][2] : m \in 1..Len(ag.guild_notification_roles)}
\* the roles of the alert guild that the invoker held when determine_alert_server
\* read them and that are mapped roles
HeldMappedRoles(ag) == {r \in Range(GuildRoles(ag.id)) : r.id \in origin.roles \cap MappedRoleIds(ag)}
\* the mapped roles that exist in the alert guild
MappedRoles(ag) == {r \in Range(GuildRoles(ag.id)) : r.id \in MappedRoleIds(ag)}
InvokingAlertGuilds == {ENABLED_ALERT_GUILDS[k][2] : k \in {j \in 1..Len(ENABLED_ALERT_GUILDS) : ENABLED_ALERT_GUILDS[j][1] = ctx.guild}}

\* C14: when determine_alert_server found the invoker of an alert guild holding
\* exactly one mapped role, the name it returned is that role's name, and it
\* dispatched no view.
C14_SingleRoleResolvesDirectly ==
    \A ag \in InvokingAlertGuilds :
        Cardinality(HeldMappedRoles(ag)) = 1 =>
            /\ \A r \in HeldMappedRoles(ag) : alerting_server_name = r.name
            /\ origin.prompts = <<>>
            /\ ~Logged(Respond("prompt"))
            /\ origin.choice = 0
\* an invoker in Staff of MS Discords who holds the general notification role
\* and the NASCAR role: the alert comes from "NASCAR"
C14_Witness ==
    /\ ctx.guild = SMS_AG.id
    /\ origin.roles = {SMS_AG.general_notification_role_id, "959542131251380274"}
    /\ alerting_server_name = <<"N", "A", "S", "C", "A", "R">>
    /\ pc = "send_alerts"

\* C15: when determine_alert_server dispatched a view for an invoker of an alert
\* guild who holds no mapped role, it dispatched one view, and the options of
\* that view are the names of all the mapped roles, in case-insensitive
\* alphabetical order.
C15_NoRoleOptionsAllSorted ==
    \A ag \in InvokingAlertGuilds :
        (origin.prompts # <<>> /\ HeldMappedRoles(ag) = {}) =>
            /\ Len(origin.prompts) = 1
            /\ Range(origin.prompts[1]) = {r.name : r \in MappedRoles(ag)}
            /\ Len(origin.prompts[1]) = Cardinality(MappedRoles(ag))
            /\ \A i, j \in 1..Len(origin.prompts[1]) :
                  i < j => ~StrLess(Casefold(origin.prompts[1][j]), Casefold(origin.prompts[1][i]))

\* C16: when determine_alert_server found the invoker holding two or more mapped
\* roles, it dispatched one view whose options are the names of exactly those
\* roles; once an option was picked the name returned is that option, and
\* before that no name is returned.
C16_ManyRolesOptionsAreMatches ==
    \A ag \in InvokingAlertGuilds :
        Cardinality(HeldMappedRoles(ag)) >= 2 =>
            /\ Len(origin.prompts) = 1
            /\ Range(origin.prompts[1]) = {r.name : r \in HeldMappedRoles(ag)}
            /\ Len(origin.prompts[1]) = Cardinality(HeldMappedRoles(ag))
            /\ Cardinality({i \in 1..Len(log) : log[i] = Respond("prompt")}) = 1
            /\ IF origin.choice # 0
               THEN /\ origin.choice \in 1..Len(origin.prompts[1])
                    /\ alerting_server_name = origin.prompts[1][origin.choice]
               ELSE alerting_server_name = <<>>
\* an invoker in Staff of MS Discords who holds the /r/formula1 and WEC roles, of
\* the three mapped roles, picked the second option: the alert comes from "WEC"
C16_Witness ==
    /\ ctx.guild = SMS_AG.id
    /\ origin.roles = {"959862354663850086", "1118919138321104906"}
    /\ origin.prompts = << << <<"/", "r", "/", "f", "o", "r", "m", "u", "l", "a", "1">>, <<"W", "E", "C">> >> >>
    /\ origin.choice = 2
    /\ alerting_server_name = <<"W", "E", "C">>
    /\ pc = "send_alerts"

\* C17: after the view of an invocation timed out, the invocation made no send
\* to any alert guild, did not enter send_alerts and did not show the invoker
\* the alert of a self-alert; it ends in the error handler. Every send and every
\* alert shown carries a name that determine_alert_server returned.
C17_AbandonedSendsNothing ==
    /\ origin.abandoned =>
          /\ \A i \in 1..Len(log) : log[i][1] \notin {"send", "send_alerts", "edit"}
          /\ ~Logged(Respond("self_alert"))
          /\ ~Logged(Respond("success"))
          /\ pc \in {"on_application_command_error", "done"}
          /\ alerting_server_name = <<>>
    /\ \A i \in 1..Len(log) :
          (log[i][1] = "send" \/ log[i] = Respond("self_alert")) => alerting_server_name # <<>>
\* a self-alert whose view timed out, and the invocation is over
C17_Witness ==
    /\ origin.abandoned
    /\ is_self_alert
    /\ pc = "done"
    /\ Logged(Respond("prompt"))

\* C18: whenever determine_alert_server waits for the selection, the wait ends:
\* an option is picked or the view times out.
C18_WaitEnds == (pc = "wait") ~> (pc # "wait")
\* the wait was ended by the timeout, and the exception is on its way to the
\* error handler
C18_Witness ==
    /\ origin.abandoned
    /\ pc = "on_application_command_error"
    /\ exception = <<"AttributeError", "determine_alert_server">>

\* C19: decorate_mutual_guilds applied to the empty list returns a str that is
\* not empty (the "not found" marker), for every alert guild.
C19_EmptyListRendersMarker ==
    (decoration.called /\ decoration.mutual_guilds = <<>>) => decoration.returned # <<>>

\* what the claim expects for one guild of the list: the mention of the role the
\* alert guild maps to the guild's id, or the guild's name when the alert guild
\* has no map or no entry for that id
ExpectedPiece(self, guild) ==
    LET map == self.guild_notification_roles
        entries == IF map = NoRoleMap THEN {}
                   ELSE {m \in 1..Len(map) : map[m][1] = guild.id}
    IN  IF entries = {} THEN guild.name
        ELSE <<"<", "@", "&">> \o <<map[CHOOSE m \in entries : TRUE][2]>> \o <<">">>
\* where the i-th piece starts in the str returned, the pieces being two
\* characters apart
RECURSIVE PieceStart(_, _, _)
PieceStart(self, mutual_guilds, i) ==
    IF i = 1 THEN 1
    ELSE PieceStart(self, mutual_guilds, i - 1)
            + Len(ExpectedPiece(self, mutual_guilds[i - 1])) + 2

\* C20: the str decorate_mutual_guilds returns is made of one piece for each
\* guild of the list, in the order of the list and separated by ", ": the
\* mention of the role the alert guild maps to the guild's id, or the guild's
\* name when there is no entry for it or no map at all.
C20_DecoratesEachGuildInOrder ==
    decoration.called =>
        LET self == decoration.self
            mgs == decoration.mutual_guilds
            n == Len(mgs)
            start(i) == PieceStart(self, mgs, i)
            piece(i) == ExpectedPiece(self, mgs[i])
        IN  /\ \A i \in 1..n :
                  SubSeq(decoration.returned, start(i), start(i) + Len(piece(i)) - 1) = piece(i)
            /\ \A i \in 1..(n - 1) :
                  SubSeq(decoration.returned, start(i) + Len(piece(i)), start(i) + Len(piece(i)) + 1)
                      = <<",", " ">>
            /\ Len(decoration.returned) = IF n = 0 THEN 0 ELSE start(n) + Len(piece(n)) - 1
\* for Staff of MS Discords, /r/formula1 is a mention and Lux's Dev/Testing
\* Server, which it does not map, is a name
C20_Witness ==
    /\ decoration.called
    /\ decoration.self = SMS_AG
    /\ decoration.mutual_guilds = <<R_F1_MG, LUX_DEV_MG>>
    /\ decoration.returned = <<"<", "@", "&", "959862354663850086", ">", ",", " ">> \o LUX_DEV_MG.name

\* C21: an invocation enters get_mutual_monitored_guilds at most once, on the
\* normal path and on the self-alert path, so that one result serves every
\* decoration of the alert.
C21_ProbedOnce ==
    Cardinality({i \in 1..Len(log) : log[i][1] = "probe"}) <= 1

\* C22: in a self-alert no send goes to the alert channel of an alert guild that
\* is not flagged testing, wherever the self-alert was raised.
C22_SelfAlertOnlyToTesting ==
    is_self_alert =>
        \A i \in 1..Len(log) :
            log[i][1] = "send" =>
                \E k \in 1..Len(ALL_ALERT_GUILDS) :
                    /\ ALL_ALERT_GUILDS[k][1] = log[i][2]
                    /\ ALL_ALERT_GUILDS[k][2].testing = TRUE
\* a self-alert raised in Staff of MS Discords, which is no testing guild, was
\* sent to Lux's Dev/Testing Server and is over
C22_Witness ==
    /\ is_self_alert
    /\ ctx.guild = SMS_AG.id
    /\ pc = "done"
    /\ Logged(<<"send", LUX_DEV_AG.id, "ok">>)

\* C23: a listener that handles a member event of a guild that is no enabled
\* alert guild leaves alert_guild_members as it was, and raises nothing.
C23_OtherGuildEventsAreNoOps ==
    [][(/\ events # <<>>
        /\ events' = Tail(events)
        /\ Head(events)[3] \notin AlertGuildIds)
           => /\ alert_guild_members' = alert_guild_members
              /\ listener'.event = Head(events)
              /\ listener'.error = "none"]_vars
\* user 3, who is in no alert guild, joined /r/formula1, a monitored guild
\* only; the index was populated, and does not hold the user's id
C23_Witness ==
    /\ listener.event = <<"join", 3, R_F1_MG.id>>
    /\ PopulateDone
    /\ alert_guild_members # {}
    /\ ~InIndex(3)

\* C24: when on_raw_member_remove has handled the leave of a user whose id was
\* not in the index, it has raised nothing.
C24_LeaveOfAbsentActorDoesNotFail ==
    (listener.event # <<>> /\ listener.event[1] = "leave" /\ ~listener.contained)
        => listener.error = "none"

\* C25: a user who was in no alert guild when the bot started, who joined an
\* alert guild and left it again, is not in the index once both events are
\* handled.
C25_JoinThenLeaveRoundTrip ==
    \A a \in Actors \ UNION {InitialRoster[g] : g \in AlertGuildIds} :
        (/\ events = <<>>
         /\ listener.event # <<>>
         /\ listener.event[1] = "leave"
         /\ listener.event[2] = a
         /\ listener.event[3] \in AlertGuildIds
         /\ listener.contained
         /\ \A g \in AlertGuildIds : a \notin roster[g])
            => ~InIndex(a)

\* C26: when populate_alert_guild_members has completed and Discord has emitted
\* no member event, the index holds the ids, as str, of exactly the members of
\* the enabled alert guilds.
C26_PopulateIsUnionOfRosters ==
    (PopulateDone /\ emitted = 0) =>
        \A a \in Actors :
            InIndex(a) <=> \E k \in 1..Len(ENABLED_ALERT_GUILDS) : a \in roster[ENABLED_ALERT_GUILDS[k][1]]
\* populated: users 1 and 2 are in the index, user 3, in no alert guild, is not
C26_Witness ==
    /\ PopulateDone
    /\ emitted = 0
    /\ alert_guild_members = {PyStr(<<"1">>), PyStr(<<"2">>)}

\* C27: solidify_actor_abstract of an Actor returns that Actor and gives
\* fetch_user nothing; so when a first call returned an Actor, a second call on
\* it returns the same Actor with no lookup.
C27_ResolveIsIdempotent ==
    /\ (resolution.calls >= 1 /\ resolution.actor_abstract[1] = "Actor")
          => resolution.first = Returned(resolution.actor_abstract[2], <<>>)
    /\ resolution.calls = 2
          => /\ resolution.second.raised = "none"
             /\ resolution.second.actor = resolution.first.actor
             /\ resolution.second.fetched = <<>>
\* the str "01" was resolved with one lookup of id 1, and the Actor resolved again
C27_Witness ==
    /\ resolution.calls = 2
    /\ resolution.actor_abstract[1] = "str"
    /\ resolution.actor_abstract[2] = <<"0", "1">>
    /\ resolution.first.fetched = <<1>>
    /\ resolution.second.actor = 1

\* C28, as claimed: an invocation whose user_id holds a character that is no
\* decimal digit, and that reached the format check, ends with the format
\* message as its only response, with no fetch_user and no exception.
C28_NonDigitIdentifierGetsFormatMessage ==
    (/\ pc = "done"
     /\ \E i \in 1..Len(ctx.user_id) : ctx.user_id[i] \notin Range(DIGITS)
     /\ \E j \in 1..Len(guards) : guards[j] = "format")
        => /\ log = <<Respond("bad_format")>>
           /\ exception = NoException

\* C29: the user-not-found message is the answer to a str that int() takes and
\* that is no user's id or is out of range; it follows the one fetch_user, it is
\* the only response, and the invocation is over with no deferral, probe or
\* send.  And every such str that reaches solidify_actor_abstract is answered so.
C29_UnknownActorIsAnswered ==
    /\ Logged(Respond("user_not_found"))
          => /\ pc = "done"
             /\ IntParses(ctx.user_id)
             /\ IntOf(ctx.user_id) \notin Actors
             /\ Len(log) = 2
             /\ log[1][1] = "fetch_user"
             /\ log[1][2] = IntOf(ctx.user_id)
             /\ exception = NoException
    /\ (/\ \E j \in 1..Len(guards) : guards[j] = "resolution"
        /\ IntParses(ctx.user_id)
        /\ IntOf(ctx.user_id) \notin Actors)
          => /\ Logged(Respond("user_not_found"))
             /\ \A i \in 1..Len(log) : log[i][1] \notin {"defer", "probe", "send"}
\* an id out of range was looked up and answered
C29_Witness ==
    /\ pc = "done"
    /\ ctx.user_id = <<"9", "9">>
    /\ ~ValidSnowflake(IntOf(ctx.user_id))
    /\ Logged(Respond("user_not_found"))
\* C30, as claimed: a load from guild objects of which two enabled ones have
\* the same id ends with a configuration error.
C30_DuplicateIdIsConfigurationError ==
    (/\ registry.loaded
     /\ \E i, j \in 1..Len(registry.objects) :
           /\ i # j
           /\ registry.objects[i].id = registry.objects[j].id
           /\ registry.objects[i].enabled
           /\ registry.objects[j].enabled)
        => registry.error = "ConfigurationError"

\* C31, as claimed: a normal alert whose send to some alert guild failed is
\* over with the success acknowledgment (the edit, or the response after it),
\* and with no failure message.
C31_DeliveryFailureStillAcknowledged ==
    (/\ pc = "done"
     /\ ~is_self_alert
     /\ \E i \in 1..Len(log) : log[i][1] = "send" /\ log[i][3] # "ok")
        => /\ Logged(Edit("ok")) \/ Logged(Respond("success"))
           /\ ~Logged(Respond("unknown_error"))

\* C32: an exception that leaves slash_alert goes to on_application_command_error
\* and nowhere else; when the invocation is over it was answered with the
\* generic failure message, once, as the last call of the invocation, deferred
\* or not; and that message is sent for no other reason.
C32_UnexpectedExceptionAnsweredOnce ==
    /\ exception # NoException => pc \in {"on_application_command_error", "done"}
    /\ (exception # NoException /\ pc = "done")
          => /\ Cardinality({i \in 1..Len(log) : log[i] = Respond("unknown_error")}) = 1
             /\ log[Len(log)] = Respond("unknown_error")
    /\ Logged(Respond("unknown_error")) => exception # NoException
\* a send raised after the deferral, and the invoker was told
C32_Witness ==
    /\ pc = "done"
    /\ exception = <<"HTTPException", "send">>
    /\ Logged(Defer)
    /\ log[Len(log)] = Respond("unknown_error")

\* the message of each guard that comes before the moderator check
GuardMessage(guard) ==
    IF guard = "environment" THEN "invalid_location"
    ELSE IF guard = "format" THEN "bad_format"
    ELSE "user_not_found"
\* C35, as claimed: an invocation that ended at the environment guard, at the
\* format guard or at the resolution of the actor made one response, the
\* message of that guard, and no deferral, probe, prompt or send.
C35_GuardsShortCircuit ==
    (/\ pc = "done"
     /\ guards # <<>>
     /\ guards[Len(guards)] \in {"environment", "format", "resolution"})
        => /\ Cardinality({i \in 1..Len(log) : log[i][1] = "respond"}) = 1
           /\ Logged(Respond(GuardMessage(guards[Len(guards)])))
           /\ \A i \in 1..Len(log) : log[i][1] \notin {"defer", "probe", "fetch_member", "send"}
           /\ origin = NoOrigin

\* C36: the moderator check blocks exactly when the user_id supplied is in
\* alert_guild_members, is no testing user id, and the resolved actor is not the
\* invoker; it then sends the moderator message and the invocation is over; and
\* an invocation that got the moderator message made no deferral, probe or send.
C36_ModeratorGuard ==
    /\ [](Logged(Respond("moderator"))
            => /\ pc = "done"
               /\ \A i \in 1..Len(log) : log[i][1] \notin {"defer", "probe", "fetch_member", "send"})
    /\ [][(pc = "moderator_check" /\ pc' # pc)
            => IF /\ PyStr(ctx.user_id) \in alert_guild_members
                  /\ ctx.user_id \notin TESTING_USER_IDS
                  /\ solidified_actor # ctx.author
               THEN /\ pc' = "done"
                    /\ log' = log \o << <<"lookup", "blocked">>, Respond("moderator") >>
               ELSE /\ pc' = "defer"
                    /\ log' = Append(log, <<"lookup", "passed">>)]_vars
\* member 2 named member 1, a moderator, and was told off
C36_Witness ==
    /\ pc = "done"
    /\ ctx.author = 2
    /\ ctx.user_id = <<"1">>
    /\ log[Len(log)] = Respond("moderator")

\* C37, as claimed: the moderator check blocks whenever the resolved actor's id
\* is in alert_guild_members, is no testing user id and is not the invoker's,
\* whatever str of digits named the actor.
C37_DecisionDependsOnResolvedActor ==
    [][(/\ pc = "moderator_check"
        /\ pc' # pc
        /\ InIndex(solidified_actor)
        /\ StrOf(solidified_actor) \notin TESTING_USER_IDS
        /\ solidified_actor # ctx.author)
          => pc' = "done" /\ log'[Len(log')] = Respond("moderator")]_vars

\* C38: a normal alert enters send_alerts with testing_guilds_only true exactly
\* when the invoking guild is an enabled testing guild; then every send goes to
\* a testing alert guild; otherwise guilds_to_alert is every enabled alert
\* guild, and a dispatch that met no failure has sent to each of them.
C38_TestingOriginStaysInTesting ==
    ~is_self_alert =>
        /\ \A i \in 1..Len(log) :
              log[i][1] = "send_alerts" => log[i][2] = DictHas(ENABLED_TESTING_GUILDS, ctx.guild)
        /\ (ctx.guild # "None" /\ DictHas(ENABLED_TESTING_GUILDS, ctx.guild))
              => \A i \in 1..Len(log) :
                    log[i][1] = "send" => DictGet(ALL_ALERT_GUILDS, log[i][2]).testing = TRUE
        /\ (/\ ctx.guild # "None"
            /\ ~DictHas(ENABLED_TESTING_GUILDS, ctx.guild)
            /\ pc \in {"send", "acknowledge"})
              => /\ guilds_to_alert = [k \in 1..Len(ENABLED_ALERT_GUILDS) |-> ENABLED_ALERT_GUILDS[k][1]]
                 /\ pc = "acknowledge" =>
                       \A k \in 1..Len(ENABLED_ALERT_GUILDS) :
                           Logged(<<"send", ENABLED_ALERT_GUILDS[k][1], "ok">>)
\* a normal alert from Staff of MS Discords reached both alert guilds; one from
\* the testing guild would have reached the testing guild alone
C38_Witness ==
    /\ ~is_self_alert
    /\ ctx.guild = SMS_AG.id
    /\ pc = "acknowledge"
    /\ Logged(<<"send", LUX_DEV_AG.id, "ok">>)
    /\ Logged(<<"send", SMS_AG.id, "ok">>)

\* a call that shows the invoker something: a response, or an edit of the
\* original response that went through
Answers(entry) == entry[1] = "respond" \/ (entry[1] = "edit" /\ entry[2] = "ok")
\* C39: every invocation Discord delivers comes to its end with at least one
\* answer to the invoker, and every invocation that deferred comes to its end
\* with an answer made after the deferral.
C39_EveryInvocationAnswered ==
    /\ (pc = "validate_command_environment")
          ~> (pc = "done" /\ \E i \in 1..Len(log) : Answers(log[i]))
    /\ Logged(Defer)
          ~> (pc = "done" /\ \E i \in 1..Len(log) : Answers(log[i]) /\ DeferredBefore(i))
\* a deferred invocation whose edit raised, and that was answered with a response
C39_Witness ==
    /\ pc = "done"
    /\ Logged(Defer)
    /\ log[Len(log) - 1] = Edit("HTTPException")
    /\ Answers(log[Len(log)])

\* whether send_alerts is to send to an alert guild
PassesFilter(alert_guild) ==
    alert_guild.enabled /\ ~(testing_guilds_only /\ ~alert_guild.testing)
SendsTo(id) == {i \in 1..Len(log) : log[i][1] = "send" /\ log[i][2] = id}
\* C34: every send of a dispatch goes to an alert guild that is enabled and
\* passes the testing filter, none to a disabled one; and when the dispatch is
\* over and no send raised, each of those guilds was sent to exactly once.
C34_OneSendPerEnabledAlertGuild ==
    /\ \A i \in 1..Len(log) :
          log[i][1] = "send" =>
              \E k \in 1..Len(registry.objects) :
                  registry.objects[k].id = log[i][2] /\ PassesFilter(registry.objects[k])
    /\ pc = "acknowledge" =>
          \A k \in 1..Len(registry.objects) :
              Cardinality(SendsTo(registry.objects[k].id))
                  = IF PassesFilter(registry.objects[k]) THEN 1 ELSE 0
\* a dispatch over a disabled alert guild and an enabled one made one send
C34_Witness ==
    /\ pc = "acknowledge"
    /\ Len(registry.objects) = 2
    /\ ~registry.objects[1].enabled
    /\ registry.objects[2].enabled
    /\ Cardinality(SendsTo(registry.objects[1].id)) = 0
    /\ Cardinality(SendsTo(registry.objects[2].id)) = 1

====
